---------------------------- MODULE Spec2Model ----------------------------
(***************************************************************************)
(* Arithmetic of F(5^2) = F5[t]/(t^2 - 3), the chord-and-tangent group law *)
(* of y^2 = x^3 + a*x + b over it, double-and-add scalar multiplication,   *)
(* and the brute-force search for the full r-torsion points, as            *)
(* implemented in src/src/main.rs.                                         *)
(*                                                                         *)
(* A function of the program that can end in panic!() returns a record     *)
(* [panic, val]: panic is "none" and val the returned value, or panic is   *)
(* the panic message and val a placeholder that nothing reads.             *)
(***************************************************************************)
EXTENDS Integers, Sequences, FiniteSets

VARIABLES op, args, pc, loop, ret

vars == <<op, args, pc, loop, ret>>

---------------------------------------------------------------------------
(* Machine integers                                                        *)

\* The values of the Rust types u8, u16 and i16.
U8 == 0 .. 255
U16 == 0 .. 65535
I16 == -32768 .. 32767

\* Rust's % on signed integers truncates: the sign follows the dividend.
Rem(v, m) == IF v >= 0 THEN v % m ELSE -((-v) % m)

\* i16::rem_euclid with a positive modulus: the result is in 0 .. m-1.
rem_euclid(v, m) == v % m

\* The cast (v as u8): the low eight bits.
AsU8(v) == v % 256

NoPanic == "none"
NoInverse == "No modular inverse found!"
UnwrapNone == "called Option::unwrap() on a None value"

Ok(v) == [panic |-> NoPanic, val |-> v]
Panic(msg, placeholder) == [panic |-> msg, val |-> placeholder]

\* F(e), with e evaluated once: a `let` of the program whose value is read
\* more than once.  (TLC evaluates a LET definition anew wherever it is
\* used; a bound variable holds a value.)
With(e, F(_)) == CHOOSE r \in {F(v) : v \in {e}} : TRUE

---------------------------------------------------------------------------
(* struct F5x2 { a: u8, b: u8 }                                            *)

\* F5x2::new
F5x2_new(a, b) == [a |-> a % 5, b |-> b % 5]

\* The elements main() enumerates: a outer, b inner.
field_elements ==
    [i \in 1 .. 25 |-> F5x2_new((i - 1) \div 5, (i - 1) % 5)]

\* The 25 values an F5x2 built by F5x2::new can have.
F5x2 == {field_elements[i] : i \in 1 .. 25}

zero == F5x2_new(0, 0)
one == F5x2_new(1, 0)

\* The u8 sums of add, before the reduction.
add_a(self, other) == self.a + other.a
add_b(self, other) == self.b + other.b

\* F5x2::add
add(self, other) ==
    F5x2_new(add_a(self, other) % 5, add_b(self, other) % 5)

\* The u8 differences of sub, before the reduction: (self.a + 5) - other.a.
sub_a_no_offset(self, other) == self.a - other.a
sub_a(self, other) == (self.a + 5) - other.a
sub_b(self, other) == (self.b + 5) - other.b

\* F5x2::sub
sub(self, other) ==
    F5x2_new(sub_a(self, other) % 5, sub_b(self, other) % 5)

\* The let-bindings of mul, which are i16.
mul_ac(self, other) == Rem(self.a * other.a, 5)
mul_bd(self, other) == Rem(self.b * other.b, 5)
mul_ad_plus_bd(self, other) == Rem(self.a * other.b + self.b * other.b, 5)
mul_ad_plus_bc(self, other) == Rem(self.a * other.b + self.b * other.a, 5)
mul_new_a(self, other) == Rem(mul_ac(self, other) + 3 * mul_bd(self, other), 5)
mul_new_b(self, other) == Rem(mul_ad_plus_bc(self, other), 5)

\* F5x2::mul
mul(self, other) ==
    F5x2_new(AsU8(mul_new_a(self, other)), AsU8(mul_new_b(self, other)))

\* F5x2::mod_inverse: the first i of 1 .. p-1 with x*i = 1 mod p, or the panic.
mod_inverse(x, p) ==
    IF \E i \in 1 .. p - 1 : (x * i) % p = 1
    THEN Ok(CHOOSE i \in 1 .. p - 1 :
               /\ (x * i) % p = 1
               /\ \A j \in 1 .. i - 1 : (x * j) % p # 1)
    ELSE Panic(NoInverse, 0)

\* The let-bindings of inverse: a*a - 3*b*b in i16, the denominator, and
\* new_a and new_b from inv = inv_denominator.
inverse_norm_no_k(self) == self.a * self.a - self.b * self.b
inverse_norm(self) == self.a * self.a - (3 * self.b) * self.b
inverse_denominator(self) == AsU8(rem_euclid(inverse_norm(self), 5))
inverse_new_a(self, inv) == AsU8(rem_euclid(self.a * inv, 5))
inverse_new_b_same_sign(self, inv) == AsU8(rem_euclid(self.b * inv, 5))
inverse_new_b(self, inv) == AsU8(5 - rem_euclid(self.b * inv, 5))

\* F5x2::inverse
inverse(self) ==
    With(mod_inverse(inverse_denominator(self), 5),
         LAMBDA inv_denominator :
            IF inv_denominator.panic # NoPanic
            THEN Panic(inv_denominator.panic, zero)
            ELSE Ok(F5x2_new(inverse_new_a(self, inv_denominator.val),
                             inverse_new_b(self, inv_denominator.val))))

\* F5x2::div
div(self, other) ==
    With(inverse(other),
         LAMBDA inv : IF inv.panic # NoPanic THEN inv
                      ELSE Ok(mul(self, inv.val)))

\* The values the program computes in each integer type on the way to a
\* result: sums, differences and products before their reduction, the
\* arguments of new, and what is cast with `as u8`.
add_u8(self, other) ==
    {add_a(self, other), add_b(self, other),
     add_a(self, other) % 5, add_b(self, other) % 5}

sub_u8(self, other) ==
    {self.a + 5, sub_a(self, other), self.b + 5, sub_b(self, other),
     sub_a(self, other) % 5, sub_b(self, other) % 5}

mul_i16(self, other) ==
    {self.a * other.a, self.b * other.b, self.a * other.b, self.b * other.a,
     self.a * other.b + self.b * other.a,
     mul_ac(self, other), mul_bd(self, other), mul_ad_plus_bc(self, other),
     3 * mul_bd(self, other), mul_ac(self, other) + 3 * mul_bd(self, other),
     mul_new_a(self, other), mul_new_b(self, other)}

mul_u8(self, other) == {mul_new_a(self, other), mul_new_b(self, other)}

mod_inverse_u16(x, p) ==
    {x * i : i \in 1 .. p - 1} \cup {(x * i) % p : i \in 1 .. p - 1}

inverse_i16(self) ==
    LET inv == mod_inverse(inverse_denominator(self), 5)
    IN  {self.a * self.a, 3 * self.b, (3 * self.b) * self.b,
         inverse_norm(self), rem_euclid(inverse_norm(self), 5)}
        \cup (IF inv.panic # NoPanic THEN {}
              ELSE {self.a * inv.val, rem_euclid(self.a * inv.val, 5),
                    self.b * inv.val, rem_euclid(self.b * inv.val, 5),
                    5 - rem_euclid(self.b * inv.val, 5)})

inverse_u8(self) ==
    LET inv == mod_inverse(inverse_denominator(self), 5)
    IN  {rem_euclid(inverse_norm(self), 5), inverse_denominator(self)}
        \cup (IF inv.panic # NoPanic THEN {}
              ELSE {inv.val, rem_euclid(self.a * inv.val, 5),
                    5 - rem_euclid(self.b * inv.val, 5),
                    inverse_new_a(self, inv.val), inverse_new_b(self, inv.val)})

---------------------------------------------------------------------------
(* struct Point { x: Option<F5x2>, y: Option<F5x2> }                       *)

\* Option<T>: None is the empty tuple, Some(v) the one-element tuple.
None == <<>>
Some(v) == <<v>>

\* Point::new
Point_new(x, y) == [x |-> x, y |-> y]

\* Point::is_at_infinity
is_at_infinity(p) == p.x = None /\ p.y = None

\* Point::at_infinity
at_infinity == [x |-> None, y |-> None]

\* lambda_double with the factor 3 of the numerator left out.
lambda_double_no_three(x1, y1, a) ==
    With(mul(x1, x1), LAMBDA x1_squared :
    With(add(x1_squared, a), LAMBDA numerator :
    With(mul(y1, F5x2_new(2, 0)), LAMBDA denominator :
        div(numerator, denominator))))

\* The slope of the tangent at (x1, y1): x1.mul(x1).mul(3).add(a) divided by
\* y1.mul(2).
lambda_double(x1, y1, a) ==
    With(mul(x1, x1), LAMBDA x1_squared :
    With(mul(x1_squared, F5x2_new(3, 0)), LAMBDA three_x1_squared :
    With(add(three_x1_squared, a), LAMBDA numerator :
    With(mul(y1, F5x2_new(2, 0)), LAMBDA denominator :
        div(numerator, denominator)))))

\* The slope of the chord through (x1, y1) and (x2, y2): y2.sub(y1) divided
\* by x2.sub(x1).
lambda_chord(x1, y1, x2, y2) ==
    With(sub(y2, y1), LAMBDA numerator :
    With(sub(x2, x1), LAMBDA denominator :
        div(numerator, denominator)))

\* x3 = lambda.mul(lambda).sub(x1).sub(x2)
x3_of(lambda, x1, x2) ==
    With(mul(lambda, lambda), LAMBDA lambda_squared :
    With(sub(lambda_squared, x1), LAMBDA less_x1 :
        sub(less_x1, x2)))

\* y3 = lambda.mul(x1.sub(x3)).sub(y1)
y3_of(lambda, x1, y1, x3) ==
    With(sub(x1, x3), LAMBDA run :
    With(mul(lambda, run), LAMBDA rise :
        sub(rise, y1)))

\* point_add once both points are unwrapped: p = (x1, y1), q = (x2, y2).
point_add_affine(x1, y1, x2, y2, a) ==
    IF x1 = x2 /\ y1 # y2 THEN Ok(at_infinity)
    ELSE With(IF x1 = x2 /\ y1 = y2
              THEN lambda_double(x1, y1, a)
              ELSE lambda_chord(x1, y1, x2, y2),
              LAMBDA lambda :
                 IF lambda.panic # NoPanic
                 THEN Panic(lambda.panic, at_infinity)
                 ELSE With(x3_of(lambda.val, x1, x2), LAMBDA x3 :
                          Ok(Point_new(Some(x3),
                                       Some(y3_of(lambda.val, x1, y1, x3))))))

\* point_add.  The four unwrap() calls panic on a point with one coordinate
\* absent, which is not at infinity.
point_add(p, q, a) ==
    IF is_at_infinity(p) THEN Ok(q)
    ELSE IF is_at_infinity(q) THEN Ok(p)
    ELSE IF p.x = None \/ p.y = None \/ q.x = None \/ q.y = None
         THEN Panic(UnwrapNone, at_infinity)
    ELSE point_add_affine(p.x[1], p.y[1], q.x[1], q.y[1], a)

\* point_mul_body with the base doubled before it is added to result.
point_mul_body_double_first(s, a) ==
    With(point_add(s.base, s.base, a),
         LAMBDA doubled :
            IF doubled.panic # NoPanic THEN doubled
            ELSE With(IF s.k % 2 = 1
                      THEN point_add(s.result, doubled.val, a)
                      ELSE Ok(s.result),
                      LAMBDA added :
                         IF added.panic # NoPanic THEN added
                         ELSE Ok([result |-> added.val,
                                  base |-> doubled.val,
                                  k |-> s.k \div 2])))

\* One run of the body of the while loop of point_mul, from the locals
\* s = [result, base, k]: the locals after it, or the panic that ended it.
point_mul_body(s, a) ==
    With(IF s.k % 2 = 1 THEN point_add(s.result, s.base, a) ELSE Ok(s.result),
         LAMBDA added :
            IF added.panic # NoPanic THEN added
            ELSE With(point_add(s.base, s.base, a),
                      LAMBDA doubled :
                         IF doubled.panic # NoPanic THEN doubled
                         ELSE Ok([result |-> added.val,
                                  base |-> doubled.val,
                                  k |-> s.k \div 2])))

\* The while loop of point_mul from the locals s, and the return of result.
RECURSIVE point_mul_loop(_, _)
point_mul_loop(s, a) ==
    IF ~(s.k > 0) THEN Ok(s.result)
    ELSE With(point_mul_body(s, a),
              LAMBDA t : IF t.panic # NoPanic
                         THEN Panic(t.panic, at_infinity)
                         ELSE point_mul_loop(t.val, a))

\* point_mul
point_mul(n, p, a) ==
    With([result |-> at_infinity, base |-> p, k |-> n],
         LAMBDA s : point_mul_loop(s, a))

---------------------------------------------------------------------------
(* The searches                                                            *)

\* rhs = x^3 + a*x + b, as both searches compute it:
\* x.mul(x).mul(x).add(a.mul(x)).add(b).
curve_rhs(x, a, b) ==
    With(mul(x, x), LAMBDA x_squared :
    With(mul(x_squared, x), LAMBDA x_cubed :
    With(mul(a, x), LAMBDA ax :
    With(add(x_cubed, ax), LAMBDA x_cubed_plus_ax :
        add(x_cubed_plus_ax, b)))))

\* y.mul(y) == rhs
on_curve(x, y, a, b) == mul(y, y) = curve_rhs(x, a, b)

\* The curve of main(): y^2 = x^3 + x + 1.
a_curve == F5x2_new(1, 0)
b_curve == F5x2_new(1, 0)

\* The affine points main() prints: x outer, y inner.
curve_points(a, b, fe) ==
    LET n == Len(fe)
        pair(k) == <<fe[((k - 1) \div n) + 1], fe[((k - 1) % n) + 1]>>
        hit(k) == on_curve(pair(k)[1], pair(k)[2], a, b)
        hits == SelectSeq([k \in 1 .. n * n |-> k], hit)
    IN  [i \in 1 .. Len(hits) |->
            Point_new(Some(pair(hits[i])[1]), Some(pair(hits[i])[2]))]

---------------------------------------------------------------------------
(* Calls.  op names the function called, args its arguments and ret what   *)
(* it returned; pc is "done" once it has returned or panicked.  The search *)
(* runs one (x, y) pair per step, pc is "search" meanwhile, loop = <<i, j>> *)
(* the pair of indices it is at and ret.val its torsion_points so far.     *)

Init ==
    /\ op = "start" /\ args = <<>> /\ pc = "start"
    /\ loop = <<0, 0>> /\ ret = <<>>

Returned(name, inputs, value) ==
    /\ op' = name /\ args' = inputs /\ ret' = value
    /\ pc' = "done" /\ loop' = loop

\* new, for every pair of u8 values.
CallNew ==
    /\ pc = "start"
    /\ \E a, b \in U8 : Returned("new", <<a, b>>, F5x2_new(a, b))

CallAdd ==
    /\ pc = "start"
    /\ \E x, y \in F5x2 : Returned("add", <<x, y>>, add(x, y))

CallSub ==
    /\ pc = "start"
    /\ \E x, y \in F5x2 : Returned("sub", <<x, y>>, sub(x, y))

CallMul ==
    /\ pc = "start"
    /\ \E x, y \in F5x2 : Returned("mul", <<x, y>>, mul(x, y))

CallInverse ==
    /\ pc = "start"
    /\ \E x \in F5x2 : Returned("inverse", <<x>>, inverse(x))

CallDiv ==
    /\ pc = "start"
    /\ \E x, y \in F5x2 : Returned("div", <<x, y>>, div(x, y))

NextField ==
    CallNew \/ CallAdd \/ CallSub \/ CallMul \/ CallInverse \/ CallDiv

SpecField == Init /\ [][NextField]_vars

\* Every pair of field elements as an affine point, on a curve or not.
AffinePairs == {Point_new(Some(x), Some(y)) : x, y \in F5x2}

\* The points of the curve of main(), the point at infinity among them.
ReferencePoints ==
    LET pts == curve_points(a_curve, b_curve, field_elements)
    IN  {pts[i] : i \in 1 .. Len(pts)} \cup {at_infinity}

\* (x, -y) for p = (x, y), with -y = sub((0,0), y).
Negated(p) == Point_new(p.x, Some(sub(zero, p.y[1])))

\* point_add of an affine pair and its negative, for every curve parameter.
CallPointAddNegated ==
    /\ pc = "start"
    /\ \E p \in AffinePairs, a \in F5x2 :
          Returned("point_add", <<p, Negated(p), a>>,
                   point_add(p, Negated(p), a))

\* point_add of two points of the curve of main().
CallPointAddOnCurve ==
    /\ pc = "start"
    /\ \E p, q \in ReferencePoints :
          Returned("point_add", <<p, q, a_curve>>, point_add(p, q, a_curve))

\* point_mul by 0 and by 1, of every point and for every curve parameter.
CallPointMul ==
    /\ pc = "start"
    /\ \E n \in {0, 1}, p \in AffinePairs \cup {at_infinity}, a \in F5x2 :
          Returned("point_mul", <<n, p, a>>, point_mul(n, p, a))

\* point_mul(n, p, a) for n = 0, 1, 2, ... beside the sum p + ... + p of n
\* terms, which is built with one point_add per step.
StartMultiples ==
    /\ pc = "start"
    /\ \E p \in ReferencePoints :
          /\ op' = "multiples"
          /\ args' = <<0, p, a_curve>>
          /\ ret' = [sum |-> Ok(at_infinity),
                     product |-> point_mul(0, p, a_curve)]
    /\ pc' = "multiples"
    /\ loop' = loop

NextMultiple ==
    /\ pc = "multiples"
    /\ args[1] + 1 \in U8
    /\ ret.sum.panic = NoPanic
    /\ args' = <<args[1] + 1, args[2], args[3]>>
    /\ ret' = [sum |-> point_add(ret.sum.val, args[2], args[3]),
               product |-> point_mul(args[1] + 1, args[2], args[3])]
    /\ UNCHANGED <<op, pc, loop>>

NextCurve ==
    \/ CallPointAddNegated
    \/ CallPointAddOnCurve
    \/ CallPointMul
    \/ StartMultiples
    \/ NextMultiple

SpecCurve == Init /\ [][NextCurve]_vars

\* The largest r the search is called with.
MaxR == 3

\* The curve parameters the search is called with: the constants of F5,
\* a = b = 1 of main() among them.
CurveCoefficients == {F5x2_new(c, 0) : c \in 0 .. 4}

\* find_full_r_torsion_points is entered: torsion_points = Vec::new().
CallFind ==
    /\ pc = "start"
    /\ \E r \in 0 .. MaxR, a, b \in CurveCoefficients :
          /\ op' = "find_full_r_torsion_points"
          /\ args' = <<r, a, b, field_elements>>
    /\ pc' = "search"
    /\ loop' = <<1, 1>>
    /\ ret' = Ok(<<>>)

\* The loop indices after <<i, j>>, with n elements to go through.
NextPair(i, j, n) == IF j < n THEN <<i, j + 1>> ELSE <<i + 1, 1>>

\* The body of the inner loop for x = fe[i], y = fe[j].
FindStep ==
    /\ pc = "search"
    /\ loop[1] <= Len(args[4])
    /\ loop[2] <= Len(args[4])
    /\ \E x \in {args[4][loop[1]]}, y \in {args[4][loop[2]]} :
          IF on_curve(x, y, args[2], args[3])
          THEN \E rp \in {point_mul(args[1], Point_new(Some(x), Some(y)),
                                    args[2])} :
                  IF rp.panic # NoPanic
                  THEN /\ pc' = "done"
                       /\ ret' = Panic(rp.panic, ret.val)
                       /\ loop' = loop
                  ELSE /\ pc' = pc
                       /\ ret' = IF is_at_infinity(rp.val)
                                 THEN Ok(Append(ret.val,
                                         Point_new(Some(x), Some(y))))
                                 ELSE ret
                       /\ loop' = NextPair(loop[1], loop[2], Len(args[4]))
          ELSE /\ pc' = pc
               /\ ret' = ret
               /\ loop' = NextPair(loop[1], loop[2], Len(args[4]))
    /\ UNCHANGED <<op, args>>

\* FindReturn without the push of the point at infinity.
FindReturn_no_push ==
    /\ pc = "search"
    /\ ~(loop[1] <= Len(args[4]) /\ loop[2] <= Len(args[4]))
    /\ pc' = "done"
    /\ UNCHANGED <<op, args, loop, ret>>

\* Both loops are left: the point at infinity is pushed, the vector returned.
FindReturn ==
    /\ pc = "search"
    /\ ~(loop[1] <= Len(args[4]) /\ loop[2] <= Len(args[4]))
    /\ pc' = "done"
    /\ ret' = Ok(Append(ret.val, at_infinity))
    /\ UNCHANGED <<op, args, loop>>

NextTorsion == CallFind \/ FindStep \/ FindReturn

SpecTorsion == Init /\ [][NextTorsion]_vars

---------------------------------------------------------------------------
(* Field arithmetic: C1, C6, C7, C8, checked under SpecField               *)

\* C1: for every nonzero x, inverse(x) returns and mul(x, inverse(x)) is the
\* multiplicative identity (1,0).
C1_MulInverseIsOne ==
    (op = "inverse" /\ args[1] # zero)
        => (ret.panic = NoPanic /\ mul(args[1], ret.val) = one)

\* inverse has returned for an element with both coefficients nonzero.
C1_Witness ==
    /\ op = "inverse" /\ args[1] = F5x2_new(2, 3)
    /\ ret.panic = NoPanic /\ ret.val.b # 0

\* C6: add and mul are commutative, and associative with every third element.
C6_CommutativeAssociative ==
    /\ op = "add" =>
          /\ ret = add(args[2], args[1])
          /\ \A z \in F5x2 : add(ret, z) = add(args[1], add(args[2], z))
    /\ op = "mul" =>
          /\ ret = mul(args[2], args[1])
          /\ \A z \in F5x2 : mul(ret, z) = mul(args[1], mul(args[2], z))

\* mul has returned for two different elements outside F5.
C6_Witness ==
    /\ op = "mul" /\ args[1] = F5x2_new(2, 3) /\ args[2] = F5x2_new(4, 1)
    /\ ret.b # 0

Canonical(e) == e.a \in 0 .. 4 /\ e.b \in 0 .. 4

\* C7: new reduces every pair of u8 values to coefficients in 0..4; add, sub,
\* mul and, for a nonzero argument, inverse and div return coefficients in
\* 0..4, and every u8, u16 and i16 value computed on the way is within its
\* type.
C7_CanonicalNoOverflow ==
    /\ op = "new" => Canonical(ret)
    /\ op = "add" => Canonical(ret) /\ add_u8(args[1], args[2]) \subseteq U8
    /\ op = "sub" => Canonical(ret) /\ sub_u8(args[1], args[2]) \subseteq U8
    /\ op = "mul" =>
          /\ Canonical(ret)
          /\ mul_i16(args[1], args[2]) \subseteq I16
          /\ mul_u8(args[1], args[2]) \subseteq U8
    /\ (op = "inverse" /\ args[1] # zero) =>
          /\ ret.panic = NoPanic /\ Canonical(ret.val)
          /\ inverse_i16(args[1]) \subseteq I16
          /\ inverse_u8(args[1]) \subseteq U8
          /\ mod_inverse_u16(inverse_denominator(args[1]), 5) \subseteq U16
    /\ (op = "div" /\ args[2] # zero) =>
          /\ ret.panic = NoPanic /\ Canonical(ret.val)
          /\ inverse_i16(args[2]) \subseteq I16
          /\ inverse_u8(args[2]) \subseteq U8
          /\ mod_inverse_u16(inverse_denominator(args[2]), 5) \subseteq U16
          /\ mul_i16(args[1], inverse(args[2]).val) \subseteq I16
          /\ mul_u8(args[1], inverse(args[2]).val) \subseteq U8

\* sub has returned where the difference of the coefficients is negative.
C7_Witness ==
    /\ op = "sub" /\ args[1] = F5x2_new(0, 1) /\ args[2] = F5x2_new(4, 3)
    /\ ret = F5x2_new(1, 3)

\* C8: inverse(z) and div(x, z) end in "No modular inverse found!" exactly
\* when z is (0,0); the norm of every nonzero z is nonzero mod 5.
C8_PanicIffZero ==
    /\ op = "inverse" =>
          /\ ret.panic = (IF args[1] = zero THEN NoInverse ELSE NoPanic)
          /\ (args[1] # zero => inverse_denominator(args[1]) # 0)
    /\ op = "div" =>
          ret.panic = (IF args[2] = zero THEN NoInverse ELSE NoPanic)

\* div by (0,0) has panicked for a nonzero dividend.
C8_Witness ==
    /\ op = "div" /\ args[1] = F5x2_new(2, 3) /\ args[2] = zero
    /\ ret.panic = NoInverse

---------------------------------------------------------------------------
(* The group law: C2, C3, C9, C10, checked under SpecCurve                 *)

\* C2: for every affine P = (x, y) and every curve parameter a,
\* point_add(P, (x, -y), a) returns the point at infinity.
C2_AddNegatedIsInfinity ==
    (op = "point_add" /\ args[1] \in AffinePairs
                      /\ args[2] = Negated(args[1]))
        => ret = Ok(at_infinity)

\* C3: point_mul(0, P, a) returns the point at infinity and point_mul(1, P, a)
\* returns P, for every point P and every curve parameter a.
C3_MulByZeroAndOne ==
    op = "point_mul" =>
        /\ args[1] = 0 => ret = Ok(at_infinity)
        /\ args[1] = 1 => ret = Ok(args[2])

\* C9: for every point P of the curve of main() and every u8 n,
\* point_mul(n, P, a) returns, without a panic, the sum of n terms P.
C9_MulIsRepeatedAdd ==
    op = "multiples" =>
        /\ ret.product.panic = NoPanic
        /\ ret.product = ret.sum

\* point_mul(255, P, a) has returned an affine point.
C9_Witness ==
    /\ op = "multiples" /\ args[1] = 255
    /\ ret.product.panic = NoPanic
    /\ ret.product.val \in AffinePairs

\* C10: for points P, Q of the curve of main(), point_add(P, Q, a) does not
\* panic and returns the point at infinity or an affine point of the curve,
\* never a point with one coordinate absent.
C10_AddStaysOnCurve ==
    (op = "point_add" /\ args[1] \in ReferencePoints
                      /\ args[2] \in ReferencePoints /\ args[3] = a_curve)
        => /\ ret.panic = NoPanic
           /\ (ret.val.x = None) = (ret.val.y = None)
           /\ \/ ret.val = at_infinity
              \/ /\ ret.val \in AffinePairs
                 /\ on_curve(ret.val.x[1], ret.val.y[1], a_curve, b_curve)

\* An affine point of the curve has been doubled: point_add has returned an
\* affine point from the tangent branch.
C10_Witness ==
    /\ op = "point_add" /\ args[3] = a_curve
    /\ args[1] \in ReferencePoints /\ args[2] \in ReferencePoints
    /\ args[1] # at_infinity /\ args[1] = args[2]
    /\ ret.panic = NoPanic /\ ret.val \in AffinePairs

---------------------------------------------------------------------------
(* The search: C4, C5, checked under SpecTorsion                           *)

\* The affine points the search is to return: those of the curve, in search
\* order, that point_mul(r, ., a) takes to the point at infinity.
TorsionOf(r, a, b, fe) ==
    LET qualifies(P) == point_mul(r, P, a) = Ok(at_infinity)
    IN  SelectSeq(curve_points(a, b, fe), qualifies)

\* C4: find_full_r_torsion_points(r, a, b, field_elements) returns the affine
\* points of the curve with point_mul(r, P, a) at infinity, in search order,
\* and the point at infinity last.
C4_FindReturnsTorsion ==
    (op = "find_full_r_torsion_points" /\ pc = "done")
        => ret = Ok(Append(TorsionOf(args[1], args[2], args[3], args[4]),
                           at_infinity))

\* Where the search returns, it returns those points and the point at
\* infinity last.
TorsionWhenReturned ==
    (op = "find_full_r_torsion_points" /\ pc = "done" /\ ret.panic = NoPanic)
        => ret.val = Append(TorsionOf(args[1], args[2], args[3], args[4]),
                            at_infinity)

\* C5: the 3-torsion search on the curve of main() returns no point twice,
\* the point at infinity once, and a number of points that divides the
\* number of points of the curve.
C5_ReferenceTorsion ==
    (op = "find_full_r_torsion_points" /\ pc = "done"
        /\ args = <<3, a_curve, b_curve, field_elements>>)
        => /\ ret.panic = NoPanic
           /\ \A i, j \in 1 .. Len(ret.val) : ret.val[i] = ret.val[j] => i = j
           /\ Cardinality({i \in 1 .. Len(ret.val) :
                              ret.val[i] = at_infinity}) = 1
           /\ (Len(curve_points(a_curve, b_curve, field_elements)) + 1)
                 % Len(ret.val) = 0

\* The 3-torsion search on the curve of main() has returned, with affine
\* points before the point at infinity.
C5_Witness ==
    /\ op = "find_full_r_torsion_points" /\ pc = "done"
    /\ args = <<3, a_curve, b_curve, field_elements>>
    /\ ret.panic = NoPanic /\ Len(ret.val) > 1

=============================================================================
